---- MODULE Spec2Model ----
(***************************************************************************)
(* MutationWatcher (src/MutationWatcher.js): a Proxy-based watcher of an   *)
(* object graph.  The heap of JavaScript objects (plain containers and the *)
(* Proxy objects created by _hook) is modelled explicitly, so that the set *)
(* trap, handleChange and emit are evaluated as the code evaluates them.   *)
(***************************************************************************)
EXTENDS Integers, Sequences, FiniteSets, TLC

VARIABLES heap,      \* the JavaScript objects: plain containers and Proxies
          watch,     \* this._watch: path -> array of listeners
          callback,  \* this._callback
          emits,     \* emit() calls made by the last write, in order
          calls,     \* callback invocations made by the last write, in order
          last,      \* the last operation and its outcome
          registered,\* history: watch() calls minus successful unWatch() calls
          cost       \* exploration budget spent so far

vars == <<heap, watch, callback, emits, calls, last, registered, cost>>

(***************************************************************************)
(* Bounds of the exploration.                                              *)
(***************************************************************************)
\* a write spends 3 of the budget, a watch() or unWatch() call 2: up to three
\* writes, or two writes and two registry calls, or one write and three
Budget == 10
MaxHeap == 16

(***************************************************************************)
(* JavaScript values.                                                      *)
(***************************************************************************)
Undefined == [t |-> "undefined", v |-> 0]
Null == [t |-> "null", v |-> 0]
NaN == [t |-> "nan", v |-> 0]
Num(n) == [t |-> "num", v |-> n]
\* the n-th function object
Fn(n) == [t |-> "function", v |-> n]
Ref(id) == [t |-> "ref", v |-> id]

\* typeof v === 'object' && v !== null
IsObject(val) == val.t = "ref"

\* the === operator
StrictEq(a, b) == a = b /\ a.t # "nan"

RawObj(props) == [kind |-> "raw", target |-> 0, prefix |-> "", props |-> props]
\* new Proxy(obj, this._generateHandler(path))
_hook(obj, path) == [kind |-> "proxy", target |-> obj, prefix |-> path, props |-> << >>]

\* this.obj = {} and the Proxy the constructor returns
ObjId == 1
RootProxy == 2

(***************************************************************************)
(* The callers' inputs.                                                    *)
(***************************************************************************)
NoCallback == "none"
Listeners == {"f", "thrower"}
GlobalCallbacks == {NoCallback, "g"}
\* listeners that change the registry, or write, while they are dispatched to
RegistryListeners == {"f", "remover", "adder"}
ReentrantListeners == {"f", "writer"}
Callbacks == Listeners \cup RegistryListeners \cup ReentrantListeners \cup {"g"}
\* what a callback does when invoked: return, or throw, ...
Throws(cb) == cb = "thrower"
\* ... or call unWatch(path, itself) for the path it listens on, ...
UnWatchesItself(cb) == cb = "remover"
\* ... or call watch(path, f) for the path it listens on, ...
WatchesMore(cb) == cb = "adder"
\* ... or assign WrittenBack to property "a" of the root
WritesBack(cb) == cb = "writer"

Names == {"a", "x"}
\* array indices; a property key reaches the set trap as a string
Indices == {0}
ToPropertyKey(n) == ToString(n)
WatchPaths == {"a", "a.x"}
ScalarIn == {Num(1), Null, NaN}
WrittenBack == Num(2)

P(k, val) == [k |-> k, v |-> val]
\* object literals; Ref(k) is the k-th object of the literal, 1 the outermost
Literals ==
  { << <<P("x", Num(2)), P("y", Num(1))>> >>,          \* {x: 2, y: 1}
    << <<P("y", Num(1)), P("x", Num(2))>> >>,          \* {y: 1, x: 2}
    << <<P("x", Ref(2))>>, << >> >> }                  \* {x: {}}

Shift(val, base) == IF val.t = "ref" THEN Ref(val.v + base) ELSE val
\* the heap after the caller has built the literal
Alloc(h, lit) ==
  h \o [i \in 1..Len(lit) |->
          RawObj([j \in 1..Len(lit[i]) |->
                    P(lit[i][j].k, Shift(lit[i][j].v, Len(h)))])]

(***************************************************************************)
(* Property access.  A Proxy whose handler has only a set trap forwards    *)
(* reads and key enumeration to its target.                                *)
(***************************************************************************)
RECURSIVE RawOf(_, _)
RawOf(h, id) == IF h[id].kind = "raw" THEN id ELSE RawOf(h, h[id].target)

PropIndex(props, name) ==
  IF \E i \in 1..Len(props) : props[i].k = name
  THEN CHOOSE i \in 1..Len(props) : props[i].k = name
  ELSE 0

\* obj[name]
Get(h, id, name) ==
  LET props == h[RawOf(h, id)].props
      i == PropIndex(props, name)
  IN IF i = 0 THEN Undefined ELSE props[i].v

\* own enumerable keys, in insertion order
Keys(h, id) ==
  LET props == h[RawOf(h, id)].props
  IN [i \in 1..Len(props) |-> props[i].k]

\* obj[name] = val on a plain container
StoreRaw(h, id, name, val) ==
  LET props == h[id].props
      i == PropIndex(props, name)
  IN [h EXCEPT ![id].props = IF i = 0 THEN Append(props, P(name, val))
                                       ELSE [props EXCEPT ![i].v = val]]

\* the containers reachable from the root by property reads
Children(h, id) ==
  LET props == h[RawOf(h, id)].props
  IN {props[i].v.v : i \in {j \in 1..Len(props) : props[j].v.t = "ref"}}

RECURSIVE ReachFrom(_, _, _)
ReachFrom(h, frontier, seen) ==
  IF frontier = {} THEN seen
  ELSE LET now == seen \cup frontier
           next == UNION {Children(h, id) : id \in frontier} \ now
       IN ReachFrom(h, next, now)

Reachable(h) == ReachFrom(h, {RootProxy}, {})

AllWrapped(h) == \A id \in Reachable(h) : h[id].kind = "proxy"

(***************************************************************************)
(* JSON.stringify.  ok = FALSE is the TypeError on a cyclic structure;     *)
(* s = "undefined" is the value undefined (not a string).                  *)
(***************************************************************************)
RECURSIVE Stringify(_, _, _)
RECURSIVE StringifyProps(_, _, _, _, _)

Stringify(h, val, stack) ==
  CASE val.t = "undefined" -> [ok |-> TRUE, s |-> "undefined"]
    [] val.t = "function" -> [ok |-> TRUE, s |-> "undefined"]
    [] val.t = "null" -> [ok |-> TRUE, s |-> "null"]
    [] val.t = "nan" -> [ok |-> TRUE, s |-> "null"]
    [] val.t = "num" -> [ok |-> TRUE, s |-> ToString(val.v)]
    [] val.t = "ref" ->
         IF val.v \in stack THEN [ok |-> FALSE, s |-> ""]
         ELSE StringifyProps(h, h[RawOf(h, val.v)].props, 1,
                             stack \cup {val.v}, "")

StringifyProps(h, props, i, stack, acc) ==
  IF i > Len(props) THEN [ok |-> TRUE, s |-> "{" \o acc \o "}"]
  ELSE LET r == Stringify(h, props[i].v, stack)
           sep == IF acc = "" THEN "" ELSE ","
       IN IF ~r.ok THEN r
          ELSE IF props[i].v.t \in {"undefined", "function"}
               THEN StringifyProps(h, props, i + 1, stack, acc)
               ELSE StringifyProps(h, props, i + 1, stack,
                      acc \o sep \o "\"" \o props[i].k \o "\":" \o r.s)

JSONstringify(h, val) == Stringify(h, val, {})

(***************************************************************************)
(* emit, handleChange and the set trap.  st is the state threaded through  *)
(* one write: st.halt is "no" while the write runs, "throw" once an        *)
(* exception propagates, "over" once the heap bound is exceeded.           *)
(***************************************************************************)
\* Array.prototype.indexOf, 1-based, 0 when absent
IndexOf(list, cb) ==
  IF \E i \in 1..Len(list) : list[i] = cb
  THEN CHOOSE i \in 1..Len(list) : list[i] = cb /\ \A j \in 1..(i - 1) : list[j] # cb
  ELSE 0

\* Array.prototype.splice(index, 1)
Splice(list, index) ==
  [i \in 1..(Len(list) - 1) |-> IF i < index THEN list[i] ELSE list[i + 1]]

RECURSIVE set(_, _, _, _)

\* listenerArr[i](newVal, oldVal) or this._callback(path, newVal, oldVal);
\* key is the entry of this._watch the listener was taken from, heap the
\* objects as the callback finds them; the callback then does what it does
Invoke(st, cb, kind, key, path, newVal, oldVal, e) ==
  LET st1 == [st EXCEPT !.calls = Append(@, [cb |-> cb, kind |-> kind, key |-> key,
                                             path |-> path,
                                             newVal |-> newVal, oldVal |-> oldVal,
                                             emit |-> e, wrapped |-> AllWrapped(st.heap),
                                             heap |-> st.heap]),
                        !.halt = IF Throws(cb) THEN "throw" ELSE @]
      list == st1.watch[key]
  IN IF UnWatchesItself(cb) /\ IndexOf(list, cb) > 0
     THEN [st1 EXCEPT !.watch[key] = Splice(list, IndexOf(list, cb))]
     ELSE IF WatchesMore(cb)
     THEN [st1 EXCEPT !.watch[key] = Append(list, "f")]
     ELSE IF WritesBack(cb)
     THEN set(st1, RootProxy, "a", WrittenBack)
     ELSE st1

\* for (i = 0; i < listenerArr.length; i++) listenerArr[i](newVal, oldVal)
RECURSIVE EmitLoop(_, _, _, _, _, _, _)
EmitLoop(st, key, path, newVal, oldVal, i, e) ==
  IF st.halt # "no" \/ i > Len(st.watch[key]) THEN st
  ELSE EmitLoop(Invoke(st, st.watch[key][i], "listener", key, path, newVal, oldVal, e),
                key, path, newVal, oldVal, i + 1, e)

\* every registered path is notified, whatever the path of the change
RECURSIVE EmitAll(_, _, _, _, _, _)
EmitAll(st, keys, path, newVal, oldVal, e) ==
  IF keys = {} \/ st.halt # "no" THEN st
  ELSE LET key == CHOOSE k \in keys : TRUE
       IN EmitAll(EmitLoop(st, key, path, newVal, oldVal, 1, e),
                  keys \ {key}, path, newVal, oldVal, e)

emitAnyPath(st, path, newVal, oldVal) ==
  LET st0 == [st EXCEPT !.emits = Append(@, [path |-> path, newVal |-> newVal,
                                             oldVal |-> oldVal])]
      e == Len(st0.emits)
      st1 == EmitAll(st0, DOMAIN st0.watch, path, newVal, oldVal, e)
  IN IF st1.halt = "no" /\ st1.callback # NoCallback
     THEN Invoke(st1, st1.callback, "global", "", path, newVal, oldVal, e)
     ELSE st1

emit(st, path, newVal, oldVal) ==
  LET st0 == [st EXCEPT !.emits = Append(@, [path |-> path, newVal |-> newVal,
                                             oldVal |-> oldVal])]
      e == Len(st0.emits)
      st1 == IF path \in DOMAIN st0.watch /\ Len(st0.watch[path]) > 0
             THEN EmitLoop(st0, path, path, newVal, oldVal, 1, e)
             ELSE st0
  IN IF st1.halt = "no" /\ st1.callback # NoCallback
     THEN Invoke(st1, st1.callback, "global", "", path, newVal, oldVal, e)
     ELSE st1

\* change detection by reference only: JSON.stringify is never called
handleChangeByReference(st, path, newVal, oldVal) ==
  IF StrictEq(newVal, oldVal) THEN st ELSE emit(st, path, newVal, oldVal)

handleChange(st, path, newVal, oldVal) ==
  IF StrictEq(newVal, oldVal) THEN st
  ELSE LET a == JSONstringify(st.heap, newVal)
           b == JSONstringify(st.heap, oldVal)
       IN IF ~a.ok \/ ~b.ok THEN [st EXCEPT !.halt = "throw"]
          ELSE IF a.s = b.s THEN st
          ELSE emit(st, path, newVal, oldVal)

RECURSIVE Assign(_, _, _, _)
RECURSIVE PropLoop(_, _, _, _, _)

\* obj[name] = val: a plain store, or the set trap when obj is a Proxy
Assign(st, obj, name, val) ==
  IF st.heap[obj].kind = "raw"
  THEN [st EXCEPT !.heap = StoreRaw(@, obj, name, val)]
  ELSE set(st, obj, name, val)

\* for (i in newVal) if (newVal.hasOwnProperty(i)) finalVal[i] = newVal[i]
PropLoop(st, finalVal, newVal, keys, i) ==
  IF st.halt # "no" \/ i > Len(keys) THEN st
  ELSE PropLoop(Assign(st, finalVal, keys[i], Get(st.heap, newVal, keys[i])),
                finalVal, newVal, keys, i + 1)

\* a set trap that runs handleChange before it stores the value
setDispatchFirst(st, p, name, newVal) ==
  LET target == st.heap[p].target
      parentName == st.heap[p].prefix
      oldVal == Get(st.heap, target, name)
      id == Len(st.heap) + 1
      st1 == IF IsObject(newVal)
             THEN [st EXCEPT !.heap = Append(@, _hook(newVal.v, parentName \o name \o "."))]
             ELSE st
      finalVal == IF IsObject(newVal) THEN Ref(id) ELSE newVal
      st2 == handleChange(st1, parentName \o name, newVal, oldVal)
      st3 == IF st2.halt # "no" THEN st2
             ELSE Assign(st2, target, name, finalVal)
  IN IF IsObject(newVal) /\ id > MaxHeap THEN [st EXCEPT !.halt = "over"]
     ELSE IF st3.halt # "no" \/ ~IsObject(newVal) THEN st3
     ELSE PropLoop(st3, id, newVal.v, Keys(st3.heap, newVal.v), 1)

\* the set trap of Proxy p
set(st, p, name, newVal) ==
  LET target == st.heap[p].target
      parentName == st.heap[p].prefix
      oldVal == Get(st.heap, target, name)
      id == Len(st.heap) + 1
      st1 == IF IsObject(newVal)
             THEN [st EXCEPT !.heap = Append(@, _hook(newVal.v, parentName \o name \o "."))]
             ELSE st
      finalVal == IF IsObject(newVal) THEN Ref(id) ELSE newVal
      st2 == Assign(st1, target, name, finalVal)
      st3 == IF st2.halt # "no" THEN st2
             ELSE handleChange(st2, parentName \o name, newVal, oldVal)
  IN IF IsObject(newVal) /\ id > MaxHeap THEN [st EXCEPT !.halt = "over"]
     ELSE IF st3.halt # "no" \/ ~IsObject(newVal) THEN st3
     ELSE PropLoop(st3, id, newVal.v, Keys(st3.heap, newVal.v), 1)

(***************************************************************************)
(* The state machine.                                                      *)
(***************************************************************************)
NoOp == [op |-> "new", w |-> 0, name |-> "", path |-> "", newVal |-> Undefined,
         oldVal |-> Undefined, halt |-> "no", cb |-> "", ret |-> FALSE,
         before |-> << >>, pre |-> << >>]

\* new MutationWatcher(callback)
Init ==
  /\ heap = << RawObj(<< >>), _hook(ObjId, "") >>
  /\ watch = [p \in {} |-> << >>]
  /\ callback \in GlobalCallbacks
  /\ emits = << >>
  /\ calls = << >>
  /\ last = NoOp
  /\ registered = [p \in WatchPaths |-> [c \in Callbacks |-> 0]]
  /\ cost = 0

\* watch(path, callback)
Watch(path, cb) ==
  /\ cost + 2 <= Budget
  /\ watch' = [p \in DOMAIN watch \cup {path} |->
                 IF p = path
                 THEN Append(IF path \in DOMAIN watch THEN watch[path] ELSE << >>, cb)
                 ELSE watch[p]]
  /\ registered' = [registered EXCEPT ![path][cb] = @ + 1]
  /\ last' = [NoOp EXCEPT !.op = "watch", !.path = path, !.cb = cb]
  /\ cost' = cost + 2
  /\ emits' = << >> /\ calls' = << >>
  /\ UNCHANGED <<heap, callback>>

\* unWatch(path, callback)
UnWatch(path, cb) ==
  /\ cost + 2 <= Budget
  /\ LET list == IF path \in DOMAIN watch THEN watch[path] ELSE << >>
         index == IndexOf(list, cb)
     IN /\ watch' = [p \in DOMAIN watch \cup {path} |->
                       IF p = path
                       THEN (IF index > 0 THEN Splice(list, index) ELSE list)
                       ELSE watch[p]]
        /\ registered' = [registered EXCEPT ![path][cb] =
                            IF index > 0 THEN @ - 1 ELSE @]
        /\ last' = [NoOp EXCEPT !.op = "unWatch", !.path = path, !.cb = cb,
                                !.ret = (index > 0), !.before = watch]
  /\ cost' = cost + 2
  /\ emits' = << >> /\ calls' = << >>
  /\ UNCHANGED <<heap, callback>>

\* w[name] = val, where w is a Proxy read from the watched graph; a write that
\* does not end within the heap bound is recorded as such and leaves no other
\* trace
DoWrite(h, w, name, val) ==
  \E st \in {set([heap |-> h, watch |-> watch, callback |-> callback,
                  emits |-> << >>, calls |-> << >>, halt |-> "no"],
                 w, name, val)} :
    LET over == st.halt = "over"
    IN /\ heap' = IF over THEN heap ELSE st.heap
       /\ emits' = IF over THEN << >> ELSE st.emits
       /\ calls' = IF over THEN << >> ELSE st.calls
       /\ watch' = IF over THEN watch ELSE st.watch
       /\ registered' =
            [p \in WatchPaths |-> [c \in Callbacks |->
               IF over \/ p \notin DOMAIN watch THEN registered[p][c]
               ELSE registered[p][c]
                    + Cardinality({i \in 1..Len(st.watch[p]) : st.watch[p][i] = c})
                    - Cardinality({i \in 1..Len(watch[p]) : watch[p][i] = c})]]
       /\ last' = [NoOp EXCEPT !.op = "write", !.w = w, !.name = name,
                               !.path = heap[w].prefix \o name,
                               !.newVal = val, !.oldVal = Get(h, w, name),
                               !.halt = st.halt, !.before = watch, !.pre = h]
       /\ cost' = cost + 3
       /\ UNCHANGED callback

Wrappers == {id \in Reachable(heap) : heap[id].kind = "proxy"}

\* a scalar, or a value read from the graph, is assigned
WriteValue(w, name, val) ==
  /\ cost + 3 <= Budget
  /\ w \in Wrappers
  /\ val \in ScalarIn \cup {Ref(id) : id \in Reachable(heap)}
  /\ DoWrite(heap, w, name, val)

\* a freshly built object literal is assigned
WriteLiteral(w, name, lit) ==
  /\ cost + 3 <= Budget
  /\ w \in Wrappers
  /\ Len(heap) + Len(lit) <= MaxHeap
  /\ DoWrite(Alloc(heap, lit), w, name, Ref(Len(heap) + 1))

\* w[n] = val with a numeric index, on a nested container
WriteIndex(w, n, val) ==
  /\ cost + 3 <= Budget
  /\ w \in Wrappers \ {RootProxy}
  /\ DoWrite(heap, w, ToPropertyKey(n), val)

Next ==
  \/ \E path \in WatchPaths, cb \in Listeners : Watch(path, cb)
  \/ \E path \in WatchPaths, cb \in Listeners : UnWatch(path, cb)
  \/ \E w \in 1..MaxHeap, name \in Names, val \in ScalarIn \cup {Ref(id) : id \in 1..MaxHeap} :
       WriteValue(w, name, val)
  \/ \E w \in 1..MaxHeap, name \in Names, lit \in Literals : WriteLiteral(w, name, lit)
  \/ \E w \in 1..MaxHeap, n \in Indices : WriteIndex(w, n, Num(1))

Spec == Init /\ [][Next]_vars

(***************************************************************************)
(* Vocabulary of the properties.                                           *)
(***************************************************************************)
\* the last operation was a write, and it ended within the heap bound
IsWrite == last.op = "write" /\ last.halt # "over"

ListenersOn(path) == IF path \in DOMAIN watch THEN watch[path] ELSE << >>

CountIn(list, x) == Cardinality({i \in 1..Len(list) : list[i] = x})

KeySet(h, id) == {Keys(h, id)[i] : i \in 1..Len(Keys(h, id))}

\* deep structural equality: the identical scalar, or containers with the same
\* keys holding deep-equal values
RECURSIVE DeepEq(_, _, _, _)
DeepEq(h, a, b, fuel) ==
  IF ~IsObject(a) \/ ~IsObject(b) THEN a = b
  ELSE IF fuel = 0 THEN TRUE
  ELSE /\ KeySet(h, a.v) = KeySet(h, b.v)
       /\ \A k \in KeySet(h, a.v) :
            DeepEq(h, Get(h, a.v, k), Get(h, b.v, k), fuel - 1)

DeepEqual(h, a, b) == DeepEq(h, a, b, Len(h))

\* the root wrapper itself was never assigned into the graph
RootNotNested(h) ==
  \A id \in 1..Len(h) : h[id].kind = "proxy" => h[id].target # RootProxy

ListenerCalls(path) ==
  {i \in 1..Len(calls) : calls[i].kind = "listener" /\ calls[i].path = path}
GlobalCalls(path) ==
  {i \in 1..Len(calls) : calls[i].kind = "global" /\ calls[i].path = path}

(***************************************************************************)
(* C1: a write of a scalar newVal over a value oldVal that is not          *)
(* deep-equal to it invokes every listener registered on the write's path  *)
(* exactly once with (newVal, oldVal), and the global callback, if set,    *)
(* exactly once with (path, newVal, oldVal).  Stated for the writes that   *)
(* return normally (no callback throws).                                   *)
(***************************************************************************)
C1_ScalarWriteDispatchedOnce ==
  (IsWrite /\ ~IsObject(last.newVal) /\ last.halt = "no"
     /\ ~DeepEqual(last.pre, last.newVal, last.oldVal)) =>
    /\ \A cb \in Listeners :
         Cardinality({i \in ListenerCalls(last.path) : calls[i].cb = cb})
           = CountIn(ListenersOn(last.path), cb)
    /\ \A i \in ListenerCalls(last.path) \cup GlobalCalls(last.path) :
         calls[i].newVal = last.newVal /\ calls[i].oldVal = last.oldVal
    /\ callback # NoCallback => Cardinality(GlobalCalls(last.path)) = 1

(***************************************************************************)
(* C2: a write whose new value is deep-equal to the current value          *)
(* dispatches nothing: no emit, no listener, no global callback.           *)
(***************************************************************************)
C2_NoEventOnEqualWrite ==
  (IsWrite /\ DeepEqual(last.pre, last.newVal, last.oldVal)) =>
    emits = << >> /\ calls = << >>

(***************************************************************************)
(* C3: when the container at path q is overwritten by a different          *)
(* container whose property k differs from the old container's k, the      *)
(* listeners on q.k are invoked with (new value of k, old value of k).     *)
(* Stated for the writes that return normally, on graphs that do not hold  *)
(* the root itself.                                                        *)
(***************************************************************************)
C3_ReplacedContainerNotifies ==
  (IsWrite /\ IsObject(last.newVal) /\ IsObject(last.oldVal)
     /\ last.halt = "no" /\ RootNotNested(last.pre)
     /\ RawOf(last.pre, last.newVal.v) # RawOf(last.pre, last.oldVal.v)) =>
    \A k \in KeySet(last.pre, last.newVal.v) \cup KeySet(last.pre, last.oldVal.v) :
      LET new == Get(last.pre, last.newVal.v, k)
          old == Get(last.pre, last.oldVal.v, k)
          qk == last.path \o "." \o k
      IN ~DeepEqual(last.pre, new, old) =>
           \A j \in 1..Len(ListenersOn(qk)) :
             \E i \in ListenerCalls(qk) :
               /\ calls[i].cb = ListenersOn(qk)[j]
               /\ DeepEqual(heap, calls[i].newVal, new)
               /\ DeepEqual(heap, calls[i].oldVal, old)

(***************************************************************************)
(* C4: assigning a pre-built container to property k of an empty root      *)
(* dispatches the event for path k and one event for every contained       *)
(* property path k.<prop>.                                                 *)
(***************************************************************************)
C4_BulkAttach ==
  (IsWrite /\ last.w = RootProxy /\ last.pre[ObjId].props = << >>
     /\ IsObject(last.newVal) /\ last.pre[last.newVal.v].kind = "raw") =>
    /\ \E e \in 1..Len(emits) : emits[e].path = last.name
    /\ \A k \in KeySet(last.pre, last.newVal.v) :
         \E e \in 1..Len(emits) : emits[e].path = last.name \o "." \o k

\* the innermost interceptor of a stack of Proxies
RECURSIVE InnerProxy(_, _)
InnerProxy(h, p) ==
  IF h[h[p].target].kind = "raw" THEN p ELSE InnerProxy(h, h[p].target)

\* what the write dispatches when the container carries one interceptor only
OnceWrappedEmits(h, w, name, val) ==
  set([heap |-> h, watch |-> watch, callback |-> callback,
       emits |-> << >>, calls |-> << >>, halt |-> "no"],
      InnerProxy(h, w), name, val).emits

(***************************************************************************)
(* C5: re-assigning an already wrapped container adds no interception      *)
(* layer: a scalar write to a property of a container that was re-assigned *)
(* while wrapped dispatches exactly the events it dispatches through the   *)
(* container's single (first) interceptor.  Stated for the writes that     *)
(* return normally, on graphs that do not hold the root itself.            *)
(***************************************************************************)
C5_IdempotentWrapping ==
  (IsWrite /\ ~IsObject(last.newVal) /\ last.halt = "no" /\ RootNotNested(last.pre)) =>
    emits = OnceWrappedEmits(last.pre, last.w, last.name, last.newVal)

(***************************************************************************)
(* C6: wherever caller code runs - after a write has returned or thrown,   *)
(* and inside every listener and global callback - every container         *)
(* reachable from the root by property reads is a Proxy.                   *)
(***************************************************************************)
C6_WrappedGraph ==
  /\ AllWrapped(heap)
  /\ \A i \in 1..Len(calls) : calls[i].wrapped

(***************************************************************************)
(* C7: dispatch matches paths exactly: every listener invoked by an emit   *)
(* for path p was registered on the string p itself, never on a prefix of  *)
(* p or on a longer path.                                                  *)
(***************************************************************************)
C7_ExactPathMatch ==
  \A i \in 1..Len(calls) :
    calls[i].kind = "listener" =>
      /\ calls[i].key = emits[calls[i].emit].path
      /\ calls[i].path = emits[calls[i].emit].path
      /\ \E j \in 1..Len(ListenersOn(calls[i].path)) :
           ListenersOn(calls[i].path)[j] = calls[i].cb

\* "a.x" is dispatched while listeners are registered on "a" and on "a.x":
\* those on "a.x" are invoked, those on the prefix "a" are not
C7_Witness ==
  /\ IsWrite /\ last.path = "a.x" /\ RootNotNested(heap)
  /\ ListenersOn("a") # << >> /\ ListenersOn("a.x") # << >>
  /\ ListenerCalls("a.x") # {}
  /\ \A i \in 1..Len(calls) : calls[i].key # "a"

\* the callbacks invoked by the e-th emit of the last write, in order
CallsOf(e, kind) ==
  LET Sel(c) == c.emit = e /\ c.kind = kind
      sel == SelectSeq(calls, Sel)
  IN [i \in 1..Len(sel) |-> sel[i].cb]

LastIndexOf(e, kind) ==
  LET is == {i \in 1..Len(calls) : calls[i].emit = e /\ calls[i].kind = kind}
  IN IF is = {} THEN 0 ELSE CHOOSE i \in is : \A j \in is : j <= i

(***************************************************************************)
(* C8: every dispatched change invokes the listeners of its path in the    *)
(* order of their watch() calls, and then the global callback, if set,     *)
(* exactly once with (path, newVal, oldVal).                               *)
(***************************************************************************)
C8_DispatchOrder ==
  \A e \in 1..Len(emits) :
    /\ CallsOf(e, "listener") = ListenersOn(emits[e].path)
    /\ callback # NoCallback =>
         /\ CallsOf(e, "global") = <<callback>>
         /\ LastIndexOf(e, "listener") < LastIndexOf(e, "global")
         /\ LET c == calls[LastIndexOf(e, "global")]
            IN c.path = emits[e].path /\ c.newVal = emits[e].newVal
               /\ c.oldVal = emits[e].oldVal

\* first occurrence of cb removed
WithoutFirst(list, cb) ==
  IF IndexOf(list, cb) = 0 THEN list ELSE Splice(list, IndexOf(list, cb))

Registered(path, cb) ==
  IF path \in WatchPaths THEN registered[path][cb] ELSE 0

(***************************************************************************)
(* C9: unWatch(path, cb) returns true exactly when cb is in the listener   *)
(* list of path, and then removes its first occurrence only; otherwise it  *)
(* returns false and removes nothing.  Every event on path invokes cb as   *)
(* many times as watch(path, cb) was called minus the unWatch(path, cb)    *)
(* calls that returned true.                                               *)
(***************************************************************************)
C9_UnWatch ==
  /\ last.op = "unWatch" =>
       LET old == IF last.path \in DOMAIN last.before
                  THEN last.before[last.path] ELSE << >>
       IN /\ last.ret <=> (\E i \in 1..Len(old) : old[i] = last.cb)
          /\ ListenersOn(last.path) = WithoutFirst(old, last.cb)
          /\ \A p \in DOMAIN last.before \ {last.path} : ListenersOn(p) = last.before[p]
  /\ \A e \in 1..Len(emits) : \A cb \in Listeners :
       Len(SelectSeq(CallsOf(e, "listener"), LAMBDA c : c = cb))
         = Registered(emits[e].path, cb)

(***************************************************************************)
(* C10: watch() detects no duplicates: a callback registered k times on a  *)
(* path is invoked k times by every change dispatched on that path.        *)
(***************************************************************************)
C10_NoDuplicateDetection ==
  \A e \in 1..Len(emits) : \A cb \in Listeners :
    Cardinality({i \in 1..Len(calls) :
                   calls[i].emit = e /\ calls[i].kind = "listener" /\ calls[i].cb = cb})
      = CountIn(ListenersOn(emits[e].path), cb)

\* the containers readable from the root, each with the property names read
\* to reach it, dot-joined and followed by a dot ("" for the root itself)
RECURSIVE PathsFrom(_, _, _)
PathsFrom(h, frontier, fuel) ==
  IF fuel = 0 \/ frontier = {} THEN frontier
  ELSE LET Slots(pr) ==
             LET props == h[RawOf(h, pr[2])].props
             IN {<<pr[1] \o props[i].k \o ".", props[i].v.v>> :
                   i \in {j \in 1..Len(props) : props[j].v.t = "ref"}}
       IN frontier \cup PathsFrom(h, UNION {Slots(pr) : pr \in frontier}, fuel - 1)

AccessPaths(h) == PathsFrom(h, {<<"", RootProxy>>}, Len(h))

(***************************************************************************)
(* C11: the path dispatched for a write is the dot-joined sequence of      *)
(* property names read from the root to reach the written property (an     *)
(* array index being the segment of its decimal digits, the root adding no *)
(* leading dot): when the write dispatches, the path through which the     *)
(* caller wrote is dispatched, and every dispatched path is such a path to *)
(* the written property.  Stated for the writes that return normally, on   *)
(* graphs that do not hold the root itself.                                *)
(***************************************************************************)
C11_PathCorrectness ==
  (IsWrite /\ last.halt = "no" /\ RootNotNested(last.pre)) =>
    LET to == {pr \in AccessPaths(last.pre) :
                 RawOf(last.pre, pr[2]) = RawOf(last.pre, last.w)}
    IN /\ \A e \in 1..Len(emits) : \E pr \in to : emits[e].path = pr[1] \o last.name
       /\ emits # << >> =>
            \E pr \in to : /\ pr[2] = last.w
                           /\ \E e \in 1..Len(emits) : emits[e].path = pr[1] \o last.name

(***************************************************************************)
(* C12: listener isolation: when two callbacks are registered on the path  *)
(* of a dispatched change and one of them throws, the other one is still   *)
(* invoked for that change, and so is the global callback, if set.         *)
(***************************************************************************)
C12_ListenerIsolation ==
  \A e \in 1..Len(emits) :
    LET list == ListenersOn(emits[e].path)
    IN (Len(list) = 2 /\ \E i \in 1..2 : Throws(list[i])) =>
         /\ \A j \in 1..2 :
              \E i \in 1..Len(calls) :
                calls[i].emit = e /\ calls[i].kind = "listener" /\ calls[i].cb = list[j]
         /\ callback # NoCallback =>
              \E i \in 1..Len(calls) : calls[i].emit = e /\ calls[i].kind = "global"

(***************************************************************************)
(* The earlier variant of the watcher (src/unnamed/part_000), which is     *)
(* constructed over an initial object: new MutationWatcher(obj, callback). *)
(* Its set trap reports every write to change(), which performs no         *)
(* equality test and calls this._watch[prop], an array, as a function.     *)
(***************************************************************************)
\* initial objects; Ref(k) is the k-th object of the literal, 1 the root
InitialObjects ==
  { << <<P("a", Ref(2))>>, <<P("x", Num(2)), P("y", Num(1))>> >>,   \* {a: {x: 2, y: 1}}
    << <<P("a", Ref(2))>>, <<P("x", Ref(3))>>, << >> >>,            \* {a: {x: {}}}
    << <<P("x", Num(2))>> >> }                                      \* {x: 2}

\* the heap after new MutationWatcher(obj, callback): obj, the Proxy of obj
\* that the constructor returns, and the containers obj holds
InitialHeap(lit) ==
  LET At(k) == IF k = 1 THEN ObjId ELSE k + 1
      Obj(k) == RawObj([j \in 1..Len(lit[k]) |->
                          P(lit[k][j].k,
                            IF lit[k][j].v.t = "ref" THEN Ref(At(lit[k][j].v.v))
                            ELSE lit[k][j].v)])
  IN <<Obj(1), _hook(ObjId, "")>> \o [k \in 1..(Len(lit) - 1) |-> Obj(k + 1)]

\* change(prop, newVal, oldVal)
change(st, prop, newVal, oldVal) ==
  LET st0 == [st EXCEPT !.emits = Append(@, [path |-> prop, newVal |-> newVal,
                                             oldVal |-> oldVal])]
  IN IF prop \in DOMAIN st0.watch /\ Len(st0.watch[prop]) > 0
     THEN [st0 EXCEPT !.halt = "throw"]
     ELSE st0

RECURSIVE setPart000(_, _, _, _)
RECURSIVE AssignPart000(_, _, _, _)
RECURSIVE PropLoopPart000(_, _, _, _, _)

AssignPart000(st, obj, name, val) ==
  IF st.heap[obj].kind = "raw"
  THEN [st EXCEPT !.heap = StoreRaw(@, obj, name, val)]
  ELSE setPart000(st, obj, name, val)

PropLoopPart000(st, finalVal, newVal, keys, i) ==
  IF st.halt # "no" \/ i > Len(keys) THEN st
  ELSE PropLoopPart000(AssignPart000(st, finalVal, keys[i], Get(st.heap, newVal, keys[i])),
                       finalVal, newVal, keys, i + 1)

setPart000(st, p, name, newVal) ==
  LET target == st.heap[p].target
      parentName == st.heap[p].prefix
      oldVal == Get(st.heap, target, name)
      id == Len(st.heap) + 1
      st1 == IF IsObject(newVal)
             THEN [st EXCEPT !.heap = Append(@, _hook(newVal.v, parentName \o name \o "."))]
             ELSE st
      finalVal == IF IsObject(newVal) THEN Ref(id) ELSE newVal
      st2 == AssignPart000(st1, target, name, finalVal)
      st3 == IF st2.halt # "no" THEN st2
             ELSE change(st2, parentName \o name, newVal, oldVal)
  IN IF IsObject(newVal) /\ id > MaxHeap THEN [st EXCEPT !.halt = "over"]
     ELSE IF st3.halt # "no" \/ ~IsObject(newVal) THEN st3
     ELSE PropLoopPart000(st3, id, newVal.v, Keys(st3.heap, newVal.v), 1)

InitPart000 ==
  /\ heap \in {InitialHeap(lit) : lit \in InitialObjects}
  /\ watch = [p \in {} |-> << >>]
  /\ callback \in GlobalCallbacks
  /\ emits = << >>
  /\ calls = << >>
  /\ last = NoOp
  /\ registered = [p \in WatchPaths |-> [c \in Callbacks |-> 0]]
  /\ cost = 0

\* c[name] = val, where c is the returned Proxy or a container read from it
WritePart000(c, name, val) ==
  /\ cost + 3 <= Budget
  /\ c \in Reachable(heap)
  /\ val \in ScalarIn \cup {Ref(id) : id \in Reachable(heap)}
  /\ \E st \in {AssignPart000([heap |-> heap, watch |-> watch, callback |-> callback,
                                emits |-> << >>, calls |-> << >>, halt |-> "no"],
                               c, name, val)} :
        /\ st.halt # "over"
        /\ heap' = st.heap
        /\ emits' = st.emits
        /\ calls' = st.calls
        /\ last' = [NoOp EXCEPT !.op = "write", !.w = c, !.name = name,
                                !.path = heap[c].prefix \o name,
                                !.newVal = val, !.oldVal = Get(heap, c, name),
                                !.halt = st.halt, !.pre = heap]
  /\ cost' = cost + 3
  /\ UNCHANGED <<watch, callback, registered>>

NextPart000 ==
  \/ \E path \in WatchPaths, cb \in Listeners : Watch(path, cb)
  \/ \E c \in 1..MaxHeap, name \in Names, val \in ScalarIn \cup {Ref(id) : id \in 1..MaxHeap} :
       WritePart000(c, name, val)

SpecPart000 == InitPart000 /\ [][NextPart000]_vars

(***************************************************************************)
(* C13: a watcher constructed over an initial object that holds nested     *)
(* containers intercepts every later write in the reachable graph - writes *)
(* to properties of the pre-existing nested containers included - and      *)
(* reports it with the dotted path from the root to the written property.  *)
(***************************************************************************)
C13_InitialObjectIntercepted ==
  IsWrite =>
    \E pr \in AccessPaths(last.pre) :
      /\ pr[2] = last.w
      /\ \E e \in 1..Len(emits) : emits[e].path = pr[1] \o last.name

(***************************************************************************)
(* Self-referential containers.                                            *)
(***************************************************************************)
CyclicLiterals ==
  { << <<P("x", Ref(1))>> >>,                              \* c = {}; c.x = c
    << <<P("x", Ref(2))>>, <<P("a", Ref(1))>> >> }         \* c = {x: d}; d.a = c

NextCyclic ==
  \/ \E w \in 1..MaxHeap, name \in Names, lit \in CyclicLiterals : WriteLiteral(w, name, lit)
  \/ \E w \in 1..MaxHeap, name \in Names, val \in ScalarIn \cup {Ref(id) : id \in 1..MaxHeap} :
       WriteValue(w, name, val)

SpecCyclic == Init /\ [][NextCyclic]_vars

\* some container readable from id (id itself included) is readable from
\* its own properties
SelfReferential(h, id) ==
  \E n \in ReachFrom(h, {id}, {}) :
    \E c \in ReachFrom(h, Children(h, n), {}) : RawOf(h, c) = RawOf(h, n)

Holds(h, obj, name, v) ==
  LET cur == Get(h, obj, name)
  IN IF IsObject(v)
     THEN /\ IsObject(cur)
          /\ h[cur.v].kind = "proxy"
          /\ RawOf(h, cur.v) = RawOf(h, v.v)
     ELSE cur = v

(***************************************************************************)
(* C15: a write w[name] = v is committed before it is dispatched and is    *)
(* never undone: the storage holds v (a Proxy of v when v is a container)  *)
(* whenever a listener or the global callback runs for the write, and      *)
(* still holds it when the write has ended - whether nothing was           *)
(* dispatched, the dispatch returned, or a callback threw.                 *)
(***************************************************************************)
C15_CommittedBeforeDispatch ==
  IsWrite =>
    /\ Holds(heap, last.w, last.name, last.newVal)
    /\ \A i \in 1..Len(calls) : Holds(calls[i].heap, last.w, last.name, last.newVal)

\* a listener threw during the dispatch of a changing scalar write: it found
\* the new value stored, and the value is still stored after the throw
C15_Witness ==
  /\ IsWrite /\ last.halt = "throw" /\ ~IsObject(last.newVal)
  /\ last.newVal # last.oldVal
  /\ calls # << >> /\ Throws(calls[Len(calls)].cb)
  /\ Get(calls[1].heap, last.w, last.name) = last.newVal
  /\ Get(heap, last.w, last.name) = last.newVal

(***************************************************************************)
(* Function values.                                                        *)
(***************************************************************************)
Functions == {Fn(1), Fn(2)}

\* w[name] = fn
WriteFunction(w, name, fn) ==
  /\ cost + 3 <= Budget
  /\ w \in Wrappers
  /\ DoWrite(heap, w, name, fn)

NextFunctions ==
  \/ \E path \in WatchPaths : Watch(path, "f")
  \/ \E w \in 1..MaxHeap, name \in Names, fn \in Functions : WriteFunction(w, name, fn)
  \/ \E w \in 1..MaxHeap, name \in Names, val \in ScalarIn \cup {Ref(id) : id \in 1..MaxHeap} :
       WriteValue(w, name, val)
  \/ \E w \in 1..MaxHeap, name \in Names, lit \in Literals : WriteLiteral(w, name, lit)

SpecFunctions == Init /\ [][NextFunctions]_vars

(***************************************************************************)
(* C16: change detection on a function falls back to referential equality  *)
(* and never throws: assigning a function over a different function, or    *)
(* over an undefined property, dispatches the change exactly once;         *)
(* assigning the function the property already holds dispatches nothing.   *)
(* Stated for writes through a container that carries a single Proxy.      *)
(***************************************************************************)
C16_FunctionsByReference ==
  (IsWrite /\ last.newVal.t = "function" /\ InnerProxy(last.pre, last.w) = last.w
     /\ last.oldVal.t \in {"function", "undefined"}) =>
    /\ last.halt = "no"
    /\ emits = IF last.newVal = last.oldVal THEN << >>
               ELSE << [path |-> last.path, newVal |-> last.newVal,
                        oldVal |-> last.oldVal] >>

(***************************************************************************)
(* Listeners that call watch() or unWatch() while they are dispatched to.  *)
(***************************************************************************)
NextRegistry ==
  \/ \E path \in WatchPaths, cb \in RegistryListeners : Watch(path, cb)
  \/ \E w \in 1..MaxHeap, name \in Names, val \in ScalarIn \cup {Ref(id) : id \in 1..MaxHeap} :
       WriteValue(w, name, val)

SpecRegistry == Init /\ [][NextRegistry]_vars

(***************************************************************************)
(* C17: emit for path p invokes exactly the listeners that were registered *)
(* on p when the dispatch began, each once and in insertion order, also    *)
(* when a listener calls unWatch(p, ...) or watch(p, ...) during the       *)
(* dispatch.  Stated for the writes that dispatch one event and return     *)
(* normally.                                                               *)
(***************************************************************************)
C17_RegistryChangesDuringDispatch ==
  (IsWrite /\ last.halt = "no" /\ Len(emits) = 1) =>
    CallsOf(1, "listener") = IF emits[1].path \in DOMAIN last.before
                             THEN last.before[emits[1].path] ELSE << >>

(***************************************************************************)
(* Listeners that write to the watched graph while they are dispatched to. *)
(***************************************************************************)
NextReentrant ==
  \/ \E path \in WatchPaths, cb \in ReentrantListeners : Watch(path, cb)
  \/ \E w \in 1..MaxHeap, name \in Names, val \in ScalarIn \cup {Ref(id) : id \in 1..MaxHeap} :
       WriteValue(w, name, val)

SpecReentrant == Init /\ [][NextReentrant]_vars

\* the events listener cb has received for path, in the order received
EventsOf(cb, path) ==
  SelectSeq(calls, LAMBDA c : c.kind = "listener" /\ c.cb = cb /\ c.path = path)

\* the same scalar, or the same container behind whatever Proxies
SameValue(h, a, b) ==
  IF IsObject(a) /\ IsObject(b) THEN RawOf(h, a.v) = RawOf(h, b.v) ELSE a = b

(***************************************************************************)
(* C18: every listener on path p receives the events for p in the order in *)
(* which the writes to p were committed: the oldVal of each event it       *)
(* receives is the newVal of the event it received before, also when       *)
(* another listener on p writes to p during the dispatch.  Stated for      *)
(* writes through the root Proxy that return normally, and for listeners   *)
(* registered once on p.                                                   *)
(***************************************************************************)
C18_EventOrderUnderReentrantWrites ==
  (IsWrite /\ last.halt = "no" /\ last.w = RootProxy) =>
    \A cb \in ReentrantListeners : \A p \in WatchPaths :
      LET ev == EventsOf(cb, p)
      IN CountIn(ListenersOn(p), cb) = 1 =>
           \A i \in 2..Len(ev) : SameValue(heap, ev[i].oldVal, ev[i - 1].newVal)
====
